---- MODULE Spec2Model ----
(***************************************************************************)
(* A model of the OrbitFS backend of BrowserFS (src/src/backend/OrbitFS.ts)*)
(*                                                                         *)
(*   SpecFS      the store adapter: stat, readdir, mkdir, rename, unlink,  *)
(*               rmdir, empty and the removal primitive _remove, over a    *)
(*               store whose primitives complete asynchronously            *)
(*   SpecFile    the dirty-buffer file object OrbitFSFile: sync and close  *)
(*               over the host's file writer                               *)
(*   SpecCreate  the two-phase construction: Create/_allocate and          *)
(*               CreateDefault                                             *)
(*                                                                         *)
(* Every callback the code invokes is appended to the log of the call it   *)
(* belongs to, so "exactly once", "with an error" and "never" are state    *)
(* predicates over the logs.                                               *)
(***************************************************************************)
EXTENDS Integers, Sequences, FiniteSets, TLC

VARIABLES
    \* ---- the store adapter (SpecFS)
    self,       \* the backend instance: [fs, address, permissions]
    node,       \* the store's contents: path -> type of the entry there
    node0,      \* the store's contents when the instance was mounted
    calls,      \* the contract calls issued so far, in order of issue
    rmLog,      \* the rm calls handed to the store: [call, path, recursive]
    \* ---- the dirty-buffer file object (SpecFile)
    buffer,     \* PreloadFile's in-memory content
    dirty,      \* PreloadFile's dirty flag
    persisted,  \* the content of the persisted object behind _entry
    syncs,      \* the sync/close calls issued so far, in order of issue
    writes,     \* the blobs handed to writer.write: [call, blob], in order
    flushes,    \* writer.write calls made for the syncs of this dirty window
    \* ---- two-phase construction (SpecCreate)
    creates     \* the Create/CreateDefault calls issued so far

vars == <<self, node, node0, calls, rmLog,
          buffer, dirty, persisted, syncs, writes, flushes, creates>>

fsVars     == <<self, node, node0, calls, rmLog>>
fsVarsButCalls == <<self, node, node0, rmLog>>
fileVars   == <<buffer, dirty, persisted, syncs, writes, flushes>>
createVars == <<creates>>

(***************************************************************************)
(* Bounds                                                                  *)
(***************************************************************************)
MaxCalls == 2      \* contract calls issued on the instance
MaxSyncs == 2      \* sync/close calls issued on the handle
MaxCreates == 2    \* Create/CreateDefault calls

(***************************************************************************)
(* Errors.  ApiError.ENOENT / ENOTDIR / ENOTEMPTY build an error of that   *)
(* code; anything else that reaches a callback is the raw value the store, *)
(* the writer or the runtime produced.                                     *)
(***************************************************************************)
NoError == "none"
ApiErrors == {"ENOENT", "ENOTDIR", "ENOTEMPTY", "EIO"}
StoreErrors == {"store:absent", "store:exists", "store:isdir", "store:notdir", "store:io"}

(***************************************************************************)
(* The store (generic/orbitfs): entries addressed by path.                 *)
(***************************************************************************)
Root == << >>
Paths == { <<"a">>, <<"a", "b">>, <<"c">> }

parent(p) == SubSeq(p, 1, Len(p) - 1)
basename(p) == p[Len(p)]
IsPrefix(p, q) == Len(p) <= Len(q) /\ SubSeq(q, 1, Len(p)) = p

typeAt(n, p) == IF p = Root THEN "directory" ELSE n[p]
entries(n, p) == { q \in Paths : parent(q) = p /\ n[q] # "none" }

\* a store holds an entry only inside a directory
WellFormed(n) ==
    \A p \in Paths : n[p] # "none" => typeAt(n, parent(p)) = "directory"

NodeTypes == {"none", "file", "directory", "other"}

\* the stores an instance is mounted on: a directory /a that is empty or holds
\* a file or a directory /a/b, beside an entry /c that is a file or neither a
\* file nor a directory
InitialStores ==
    { n \in [Paths -> NodeTypes] :
        /\ WellFormed(n)
        /\ n[<<"a">>] = "directory"
        /\ n[<<"a", "b">>] \in {"none", "file", "directory"}
        /\ n[<<"c">>] \in {"file", "other"} }

\* what the store's stat reports for an entry: a file has a byte size and one
\* block, a directory has no bytes and one block per entry
StatInfo(n, p) ==
    [type   |-> typeAt(n, p),
     size   |-> IF typeAt(n, p) = "file" THEN Len(p) + 1 ELSE 0,
     blocks |-> IF typeAt(n, p) = "directory"
                THEN Cardinality(entries(n, p)) ELSE 1]
NoInfo == [type |-> "none", size |-> 0, blocks |-> 0]

\* Each primitive yields [err, ...]: io is the store failing for a reason of
\* its own (the store is reached over the network).
storeStat(n, p, io) ==
    IF io THEN [err |-> "store:io", info |-> NoInfo]
    ELSE IF typeAt(n, p) = "none" THEN [err |-> "store:absent", info |-> NoInfo]
    ELSE [err |-> NoError, info |-> StatInfo(n, p)]

storeLs(n, p, io) ==
    IF io THEN [err |-> "store:io", names |-> {}]
    ELSE IF typeAt(n, p) = "none" THEN [err |-> "store:absent", names |-> {}]
    ELSE IF typeAt(n, p) # "directory" THEN [err |-> "store:notdir", names |-> {}]
    ELSE [err |-> NoError, names |-> { basename(q) : q \in entries(n, p) }]

storeMkdir(n, p, io) ==
    IF io THEN [err |-> "store:io", node |-> n]
    ELSE IF typeAt(n, p) # "none" THEN [err |-> "store:exists", node |-> n]
    ELSE IF typeAt(n, parent(p)) = "none" THEN [err |-> "store:absent", node |-> n]
    ELSE IF typeAt(n, parent(p)) # "directory" THEN [err |-> "store:notdir", node |-> n]
    ELSE [err |-> NoError, node |-> [n EXCEPT ![p] = "directory"]]

\* the entry at old, and everything below it, moves to new
moved(old, new, q) == new \o SubSeq(q, Len(old) + 1, Len(q))
storeMv(n, old, new, io) ==
    IF io THEN [err |-> "store:io", node |-> n]
    ELSE IF typeAt(n, old) = "none" THEN [err |-> "store:absent", node |-> n]
    ELSE IF typeAt(n, new) # "none" THEN [err |-> "store:exists", node |-> n]
    ELSE IF typeAt(n, parent(new)) # "directory" THEN [err |-> "store:notdir", node |-> n]
    ELSE [err |-> NoError,
          node |-> [q \in Paths |->
                      IF IsPrefix(new, q)
                      THEN n[moved(new, old, q)]
                      ELSE IF IsPrefix(old, q) THEN "none" ELSE n[q]]]

\* rm removes the entry and, for a directory, everything below it: the store
\* does not check that a directory is empty.  Without the recursive flag a
\* store either refuses a directory (strict) or removes it all the same.
storeRm(n, p, recursive, io, strict) ==
    IF io THEN [err |-> "store:io", node |-> n]
    ELSE IF typeAt(n, p) = "none" THEN [err |-> "store:absent", node |-> n]
    ELSE IF typeAt(n, p) = "directory" /\ ~recursive /\ strict
         THEN [err |-> "store:isdir", node |-> n]
    ELSE [err |-> NoError,
          node |-> [q \in Paths |-> IF IsPrefix(p, q) THEN "none" ELSE n[q]]]

storeEmpty(n, io) ==
    IF io THEN [err |-> "store:io", node |-> n]
    ELSE [err |-> NoError, node |-> [q \in Paths |-> "none"]]

(***************************************************************************)
(* The store adapter, class OrbitFS.                                       *)
(***************************************************************************)
NoStats == [type |-> "none", size |-> 0]
Stats(type, size) == [type |-> type, size |-> size]

\* one invocation of a caller's callback: cb(err, stats) or cb(err, names)
Cb(err, stats, names) == [err |-> err, stats |-> stats, names |-> names]
CbOk == Cb(NoError, NoStats, {})
CbErr(e) == Cb(e, NoStats, {})

NewCall(op, p, q, pc) ==
    [op |-> op, path |-> p, path2 |-> q, pc |-> pc, cb |-> << >>,
     \* stat: the calls whose store work was over when it was issued
     after |-> IF op = "stat"
               THEN { k \in 1..Len(calls) : calls[k].pc = "done" } ELSE {},
     \* rmdir: whether readdir delivered a listing, and the listing
     listed |-> FALSE, listing |-> {},
     \* stat, readdir, rmdir: the error the store's stat or ls called back with
     native |-> "unset",
     \* stat: the result the store's stat called back with
     res |-> NoInfo,
     \* unlink, rmdir: what rm found at the path, rm's result, what it removed
     target |-> "none", rmErr |-> "unset", removed |-> {}]

\* what the instance's store handle _fs can hold
Undefined == "undefined"
Null == "null"
StoreHandle == "store"

\* a contract call reads a primitive off the store handle (this._fs.stat,
\* this._fs.ls, ...): that reaches the store only when the handle is one
dispatchOn(handle) ==
    CASE handle = StoreHandle         -> "store"
      [] handle \in {Null, Undefined} -> "TypeError"
      [] OTHER                        -> "no such primitive"

CanCall == Len(calls) < MaxCalls /\ dispatchOn(self.fs) = "store"

\* the callback stat hands to the store's stat
statCallback_swapped(err, res, path) ==
    IF err # NoError THEN CbErr("ENOENT")
    ELSE CASE res.type = "file"      -> Cb(NoError, Stats("FILE", res.blocks), {})
           [] res.type = "directory" -> Cb(NoError, Stats("DIRECTORY", res.size), {})
           [] OTHER                  -> CbErr("ENOENT")

statCallback(err, res, path) ==
    IF err # NoError THEN CbErr("ENOENT")
    ELSE CASE res.type = "file"      -> Cb(NoError, Stats("FILE", res.size), {})
           [] res.type = "directory" -> Cb(NoError, Stats("DIRECTORY", res.blocks), {})
           [] OTHER                  -> CbErr("ENOENT")

\* the callback readdir hands to the store's ls
readdirCallback_native(err, res) ==
    IF err # NoError THEN CbErr(err) ELSE Cb(NoError, NoStats, res)

readdirCallback(err, res) ==
    IF err # NoError THEN CbErr("ENOTDIR") ELSE Cb(NoError, NoStats, res)

\* what rmdir does with the listing readdir delivers
rmdirOnListing_unchecked(e, files) ==
    IF e # NoError THEN "fail" ELSE "remove"

rmdirOnListing_heedless(e, files) ==
    IF Cardinality(files) > 0 THEN "notempty" ELSE "remove"

rmdirOnListing(e, files) ==
    IF e # NoError THEN "fail"
    ELSE IF Cardinality(files) > 0 THEN "notempty"
    ELSE "remove"

\* the recursion flag _remove passes to rm
removeOpts(isFile) == [recursive |-> isFile]

\* the handler _remove chains on rm's promise: the callbacks it makes
removeThen(err) == IF err # NoError THEN << CbErr(err) >> ELSE << >>

stat(p) ==
    /\ CanCall
    /\ calls' = Append(calls, NewCall("stat", p, p, "stat"))
    /\ UNCHANGED <<self, node, node0, rmLog, fileVars, createVars>>

StatDone(c, io) ==
    /\ calls[c].pc = "stat"
    /\ LET r == storeStat(node, calls[c].path, io)
       IN calls' = [calls EXCEPT ![c].pc = "done", ![c].native = r.err,
                       ![c].res = r.info,
                       ![c].cb = Append(@, statCallback(r.err, r.info, calls[c].path))]
    /\ UNCHANGED <<self, node, node0, rmLog, fileVars, createVars>>

readdir(p) ==
    /\ CanCall
    /\ calls' = Append(calls, NewCall("readdir", p, p, "ls"))
    /\ UNCHANGED <<self, node, node0, rmLog, fileVars, createVars>>

rmdir(p) ==
    /\ CanCall
    /\ calls' = Append(calls, NewCall("rmdir", p, p, "ls"))
    /\ UNCHANGED <<self, node, node0, rmLog, fileVars, createVars>>

\* the store's ls completes: readdir's callback runs and, for rmdir, the
\* callback rmdir gave to readdir
LsDone(c, io) ==
    /\ calls[c].pc = "ls"
    /\ LET r == storeLs(node, calls[c].path, io)
           e == readdirCallback(r.err, r.names)
       IN IF calls[c].op = "readdir"
          THEN /\ calls' = [calls EXCEPT ![c].pc = "done", ![c].native = r.err,
                                ![c].cb = Append(@, e)]
               /\ rmLog' = rmLog
          ELSE CASE rmdirOnListing(e.err, e.names) = "fail" ->
                      /\ calls' = [calls EXCEPT ![c].pc = "done", ![c].native = r.err,
                                      ![c].listed = (e.err = NoError), ![c].listing = e.names,
                                      ![c].cb = Append(@, CbErr(e.err))]
                      /\ rmLog' = rmLog
                 [] rmdirOnListing(e.err, e.names) = "notempty" ->
                      /\ calls' = [calls EXCEPT ![c].pc = "done", ![c].native = r.err,
                                      ![c].listed = (e.err = NoError), ![c].listing = e.names,
                                      ![c].cb = Append(@, CbErr("ENOTEMPTY"))]
                      /\ rmLog' = rmLog
                 [] OTHER ->
                      /\ calls' = [calls EXCEPT ![c].pc = "rm", ![c].native = r.err,
                                      ![c].listed = (e.err = NoError), ![c].listing = e.names]
                      /\ rmLog' = Append(rmLog,
                             [call |-> c, path |-> calls[c].path,
                              recursive |-> removeOpts(FALSE).recursive])
    /\ UNCHANGED <<self, node, node0, fileVars, createVars>>

unlink(p) ==
    /\ CanCall
    /\ calls' = Append(calls, NewCall("unlink", p, p, "rm"))
    /\ rmLog' = Append(rmLog, [call |-> Len(calls) + 1, path |-> p,
                               recursive |-> removeOpts(TRUE).recursive])
    /\ UNCHANGED <<self, node, node0, fileVars, createVars>>

\* the store's rm completes and the handler _remove chained on it runs
RmDone(c, io, strict) ==
    /\ calls[c].pc = "rm"
    /\ LET i == CHOOSE k \in 1..Len(rmLog) : rmLog[k].call = c
           r == storeRm(node, rmLog[i].path, rmLog[i].recursive, io, strict)
       IN /\ node' = r.node
          /\ calls' = [calls EXCEPT ![c].pc = "done",
                          ![c].target = typeAt(node, rmLog[i].path),
                          ![c].rmErr = r.err,
                          ![c].removed = { q \in Paths : node[q] # "none" /\ r.node[q] = "none" },
                          ![c].cb = @ \o removeThen(r.err)]
    /\ UNCHANGED <<self, node0, rmLog, fileVars, createVars>>

mkdir(p) ==
    /\ CanCall
    /\ calls' = Append(calls, NewCall("mkdir", p, p, "mkdir"))
    /\ UNCHANGED <<self, node, node0, rmLog, fileVars, createVars>>

MkdirDone(c, io) ==
    /\ calls[c].pc = "mkdir"
    /\ LET r == storeMkdir(node, calls[c].path, io)
       IN /\ node' = r.node
          /\ calls' = [calls EXCEPT ![c].pc = "done", ![c].cb = Append(@, CbErr(r.err))]
    /\ UNCHANGED <<self, node0, rmLog, fileVars, createVars>>

rename(oldPath, newPath) ==
    /\ CanCall
    /\ calls' = Append(calls, NewCall("rename", oldPath, newPath, "mv"))
    /\ UNCHANGED <<self, node, node0, rmLog, fileVars, createVars>>

MvDone(c, io) ==
    /\ calls[c].pc = "mv"
    /\ LET r == storeMv(node, calls[c].path, calls[c].path2, io)
       IN /\ node' = r.node
          /\ calls' = [calls EXCEPT ![c].pc = "done", ![c].cb = Append(@, CbErr(r.err))]
    /\ UNCHANGED <<self, node0, rmLog, fileVars, createVars>>

empty_rebinding ==
    /\ CanCall
    /\ calls' = Append(calls, NewCall("empty", Root, Root, "empty"))
    /\ self' = [self EXCEPT !.fs = Null]
    /\ UNCHANGED <<node, node0, rmLog, fileVars, createVars>>

empty ==
    /\ CanCall
    /\ calls' = Append(calls, NewCall("empty", Root, Root, "empty"))
    /\ UNCHANGED <<self, node, node0, rmLog, fileVars, createVars>>

EmptyDone(c, io) ==
    /\ calls[c].pc = "empty"
    /\ LET r == storeEmpty(node, io)
       IN /\ node' = r.node
          /\ calls' = [calls EXCEPT ![c].pc = "done", ![c].cb = Append(@, CbErr(r.err))]
    /\ UNCHANGED <<self, node0, rmLog, fileVars, createVars>>

\* the renames issued: between the two paths that never hold an entry below
\* them, so that the model's paths are closed under mv
Renames == { << <<"a", "b">>, <<"c">> >>, << <<"c">>, <<"a", "b">> >> }

\* the instance the contract operations are written for: _fs holds a store.
\* (What construction leaves in _fs is the matter of SpecCreate.)
Bound == [fs |-> StoreHandle, address |-> "", permissions |-> <<"*">>]

InitFS ==
    /\ self = Bound
    /\ node \in InitialStores
    /\ node0 = node
    /\ calls = << >>
    /\ rmLog = << >>
    /\ buffer = << >> /\ dirty = FALSE /\ persisted = << >>
    /\ syncs = << >> /\ writes = << >> /\ flushes = 0
    /\ creates = << >>

NextFS ==
    \/ \E p \in Paths : stat(p)
    \/ \E p \in Paths : readdir(p)
    \/ \E p \in Paths : mkdir(p)
    \/ \E pq \in Renames : rename(pq[1], pq[2])
    \/ \E p \in Paths : unlink(p)
    \/ \E p \in Paths : rmdir(p)
    \/ empty
    \/ \E c \in 1..Len(calls), io \in BOOLEAN : StatDone(c, io)
    \/ \E c \in 1..Len(calls), io \in BOOLEAN : LsDone(c, io)
    \/ \E c \in 1..Len(calls), io \in BOOLEAN : MkdirDone(c, io)
    \/ \E c \in 1..Len(calls), io \in BOOLEAN : MvDone(c, io)
    \/ \E c \in 1..Len(calls), io \in BOOLEAN, strict \in BOOLEAN : RmDone(c, io, strict)
    \/ \E c \in 1..Len(calls), io \in BOOLEAN : EmptyDone(c, io)

SpecFS == InitFS /\ [][NextFS]_vars

(***************************************************************************)
(* Claims about the store adapter                                          *)
(***************************************************************************)
RmOf(c) == { k \in 1..Len(rmLog) : rmLog[k].call = c }

\* C1: an rmdir whose listing of the path has at least one entry completes
\* with exactly one callback, the not-empty error, and hands no rm to the
\* store; when it is the only call made, the store is as it was mounted.
C1_RmdirNonEmpty ==
    \A c \in 1..Len(calls) :
        (calls[c].op = "rmdir" /\ calls[c].listed /\ calls[c].listing # {})
        => /\ calls[c].pc = "done"
           /\ calls[c].cb = << CbErr("ENOTEMPTY") >>
           /\ RmOf(c) = {}
           /\ calls[c].removed = {}
           /\ (Len(calls) = 1 => node = node0)

C1_Witness ==
    \E c \in 1..Len(calls) :
        /\ calls[c].op = "rmdir" /\ calls[c].listed /\ calls[c].listing # {}
        /\ calls[c].pc = "done"
        /\ entries(node, calls[c].path) # {}

\* C2: an rmdir that listed the path as an empty directory, and whose rm
\* found the directory there and met no failure of the store's own, has
\* invoked its callback once with no error, and a stat of the path issued
\* after that fails with not-found.
C2_RmdirEmptySucceeds ==
    \A c \in 1..Len(calls) :
        (/\ calls[c].op = "rmdir" /\ calls[c].listed /\ calls[c].listing = {}
         /\ calls[c].pc = "done" /\ calls[c].target = "directory"
         /\ calls[c].rmErr # "store:io")
        => /\ calls[c].cb = << CbOk >>
           /\ \A d \in 1..Len(calls) :
                (/\ calls[d].op = "stat" /\ calls[d].path = calls[c].path
                 /\ c \in calls[d].after /\ calls[d].pc = "done")
                => calls[d].cb = << CbErr("ENOENT") >>

\* C3: an unlink whose rm finds a directory at the path delivers an error to
\* its caller and removes neither the directory nor anything below it.
C3_UnlinkDirectoryRejected ==
    \A c \in 1..Len(calls) :
        (calls[c].op = "unlink" /\ calls[c].pc = "done" /\ calls[c].target = "directory")
        => /\ Len(calls[c].cb) = 1
           /\ calls[c].cb[1].err # NoError
           /\ calls[c].removed = {}

(***************************************************************************)
(* The dirty-buffer file object, class OrbitFSFile (a PreloadFile).        *)
(*                                                                         *)
(* The persisted object is reached through the host's file writer: a       *)
(* writer starts at position 0, write(blob) overwrites from there and      *)
(* leaves what lies beyond the blob, a failed write fires onerror and      *)
(* then onwriteend, a finished write fires onwriteend alone, and           *)
(* truncate(n) cuts or zero-fills the object to n bytes.                   *)
(***************************************************************************)
\* the contents a caller writes, and the object holds at first: a short one
\* and a longer one that differ in every byte
Buffers == { <<1>>, <<2, 2>> }

WriterError == "writer:error"

\* writer.write(blob) on a fresh writer
overwrite(old, blob) == blob \o SubSeq(old, Len(blob) + 1, Len(old))

\* writer.truncate(n)
truncate(old, n) ==
    IF Len(old) >= n THEN SubSeq(old, 1, n)
    ELSE old \o [i \in 1..(n - Len(old)) |-> 0]

NewSync(op, pc, cb) ==
    [op |-> op, pc |-> pc, cb |-> cb,
     dirtyAtCall |-> dirty,
     \* whether a close had completed on the handle when this call was made
     afterClose |-> \E k \in 1..Len(syncs) :
                       syncs[k].op = "close" /\ syncs[k].cb # << >>,
     \* whether the buffer has not been written since this call was made
     window |-> TRUE,
     \* the blob and length sync took from the buffer, once it has
     blob |-> << >>, length |-> 0,
     \* how the write ended, and the dirty flag right after onwriteend ran
     wrote |-> "no", dirtyAfter |-> dirty]

CanSync == Len(syncs) < MaxSyncs

\* PreloadFile.write: the buffer takes the new content, the handle is dirty
write(b) ==
    /\ buffer' = b
    /\ dirty' = TRUE
    /\ syncs' = [k \in 1..Len(syncs) |-> [syncs[k] EXCEPT !.window = FALSE]]
    /\ flushes' = 0
    /\ UNCHANGED <<persisted, writes, calls, fsVarsButCalls, createVars>>

\* sync's test of the dirty flag: whether there is something to flush
needsFlush_always(isDirty) == TRUE

needsFlush(isDirty) == isDirty

syncBody(op) ==
    /\ CanSync
    /\ IF ~needsFlush(dirty)
       THEN syncs' = Append(syncs, NewSync(op, "done", << CbOk >>))
       ELSE syncs' = Append(syncs, NewSync(op, "createWriter", << >>))
    /\ UNCHANGED <<buffer, dirty, persisted, writes, flushes, calls,
                   fsVarsButCalls, createVars>>

sync == syncBody("sync")

\* close is sync and nothing else
close == syncBody("close")

\* createWriter delivers the writer: the callback sync gave it takes the
\* buffer as it is now, installs the two handlers and starts the write.
\* When createWriter fails nothing runs: sync gave it no error callback.
CreateWriterDone(c, ok) ==
    /\ syncs[c].pc = "createWriter"
    /\ IF ok
       THEN /\ syncs' = [syncs EXCEPT ![c].pc = "write",
                            ![c].blob = buffer, ![c].length = Len(buffer)]
            /\ writes' = Append(writes, [call |-> c, blob |-> buffer])
            /\ flushes' = IF syncs[c].window THEN flushes + 1 ELSE flushes
       ELSE /\ syncs' = [syncs EXCEPT ![c].pc = "lost"]
            /\ UNCHANGED <<writes, flushes>>
    /\ UNCHANGED <<buffer, dirty, persisted, calls, fsVarsButCalls, createVars>>

\* the callbacks the two handlers make: onerror (when the write failed) and
\* then onwriteend
onerror(err) == << CbErr(err) >>
onwriteend == << CbOk >>

\* the write ends: the writer fires onerror if it failed, then onwriteend,
\* which detaches the handlers, starts the truncate and resets the dirty flag
WriteDone(c, ok) ==
    /\ syncs[c].pc = "write"
    /\ persisted' = IF ok THEN overwrite(persisted, syncs[c].blob) ELSE persisted
    /\ dirty' = FALSE
    /\ syncs' = [syncs EXCEPT ![c].pc = "truncate",
                    ![c].wrote = IF ok THEN "ok" ELSE "failed",
                    ![c].dirtyAfter = FALSE,
                    ![c].cb = @ \o (IF ok THEN << >> ELSE onerror(WriterError))
                                \o onwriteend]
    /\ UNCHANGED <<buffer, writes, flushes, calls, fsVarsButCalls, createVars>>

\* the truncate ends; no handler is attached any more, so nobody hears of it
TruncateDone(c, ok) ==
    /\ syncs[c].pc = "truncate"
    /\ persisted' = IF ok THEN truncate(persisted, syncs[c].length) ELSE persisted
    /\ syncs' = [syncs EXCEPT ![c].pc = "done"]
    /\ UNCHANGED <<buffer, dirty, writes, flushes, calls, fsVarsButCalls, createVars>>

FilePath == <<"c">>

\* what a stat of the handle's path delivers: the store reports the persisted
\* object, a file of its current length
statOfFile ==
    statCallback(NoError,
                 [type |-> "file", size |-> Len(persisted), blocks |-> 1],
                 FilePath)

InitFile ==
    /\ self = Bound
    /\ node = [p \in Paths |-> IF p = FilePath THEN "file" ELSE "none"]
    /\ node0 = node
    /\ calls = << >>
    /\ rmLog = << >>
    /\ persisted \in Buffers
    /\ buffer = persisted
    /\ dirty = FALSE
    /\ syncs = << >> /\ writes = << >> /\ flushes = 0
    /\ creates = << >>

NextFile ==
    \/ \E b \in Buffers : write(b)
    \/ sync
    \/ close
    \/ \E c \in 1..Len(syncs), ok \in BOOLEAN : CreateWriterDone(c, ok)
    \/ \E c \in 1..Len(syncs), ok \in BOOLEAN : WriteDone(c, ok)
    \/ \E c \in 1..Len(syncs), ok \in BOOLEAN : TruncateDone(c, ok)

SpecFile == InitFile /\ [][NextFile]_vars

(***************************************************************************)
(* Claims about the file object                                            *)
(***************************************************************************)
Signalled(c) == \E i \in 1..Len(syncs[c].cb) : syncs[c].cb[i].err = NoError

\* C12: a stat whose store call failed, for whatever reason of the store's
\* (the path is absent, the store is unreachable), fails with ENOENT and
\* nothing else; a readdir whose store call failed (the path is absent, is
\* not a directory, the store is unreachable) fails with ENOTDIR and nothing
\* else.
C12_ClassifiedByCallSite ==
    \A c \in 1..Len(calls) :
        (calls[c].pc = "done" /\ calls[c].native \notin {NoError, "unset"})
        => /\ calls[c].op = "stat"    => calls[c].cb = << CbErr("ENOENT") >>
           /\ calls[c].op = "readdir" => calls[c].cb = << CbErr("ENOTDIR") >>

\* a stat and a readdir of one path that was never created, both over, the
\* store having answered each with its own error for an absent path
C12_Witness ==
    \E c, d \in 1..Len(calls) :
        /\ calls[c].op = "stat" /\ calls[d].op = "readdir"
        /\ calls[c].path = calls[d].path /\ node0[calls[c].path] = "none"
        /\ calls[c].native = "store:absent" /\ calls[d].native = "store:absent"
        /\ calls[c].cb = << CbErr("ENOENT") >>
        /\ calls[d].cb = << CbErr("ENOTDIR") >>

\* C15: a stat the store answered without error delivers one record, File
\* with the store's size for a result of type file and Directory with the
\* store's block count for a result of type directory; for a result of any
\* other type it delivers ENOENT and no record.
C15_StatDiscriminates ==
    \A c \in 1..Len(calls) :
        (calls[c].op = "stat" /\ calls[c].pc = "done" /\ calls[c].native = NoError)
        => calls[c].cb =
              CASE calls[c].res.type = "file" ->
                      << [err |-> NoError, names |-> {},
                          stats |-> [type |-> "FILE", size |-> calls[c].res.size]] >>
                [] calls[c].res.type = "directory" ->
                      << [err |-> NoError, names |-> {},
                          stats |-> [type |-> "DIRECTORY", size |-> calls[c].res.blocks]] >>
                [] OTHER ->
                      << [err |-> "ENOENT", names |-> {}, stats |-> NoStats] >>

\* a stat of a file and a stat of a directory that holds an entry, both
\* answered: size and block count differ for each
C15_Witness ==
    \E c, d \in 1..Len(calls) :
        /\ calls[c].op = "stat" /\ calls[c].res.type = "file"
        /\ calls[c].res.size # calls[c].res.blocks
        /\ calls[c].cb[1].stats = Stats("FILE", calls[c].res.size)
        /\ calls[d].op = "stat" /\ calls[d].res.type = "directory"
        /\ calls[d].res.size # calls[d].res.blocks
        /\ calls[d].cb[1].stats = Stats("DIRECTORY", calls[d].res.blocks)

\* C17: rmdir removes nothing below its path: when the directory holds an
\* entry at the moment the store applies rmdir's rm (one made after the
\* listing came back empty), neither the directory nor the entry goes.
C17_RmdirRemovesNoEntry ==
    \A c \in 1..Len(calls) :
        (calls[c].op = "rmdir" /\ calls[c].pc = "done")
        => \A q \in calls[c].removed : ~(IsPrefix(calls[c].path, q) /\ q # calls[c].path)

\* C18: an rmdir whose listing failed (the path is absent, is not a
\* directory, the store is unreachable) delivers ENOTDIR, once, and hands
\* no rm to the store; an rmdir hands an rm to the store only after its
\* listing came back without error and empty.
C18_RmdirListingFirst ==
    \A c \in 1..Len(calls) :
        calls[c].op = "rmdir"
        => /\ calls[c].native \notin {NoError, "unset"}
              => /\ calls[c].pc = "done"
                 /\ calls[c].cb = << CbErr("ENOTDIR") >>
                 /\ \A i \in 1..Len(rmLog) : rmLog[i].call # c
           /\ (\E i \in 1..Len(rmLog) : rmLog[i].call = c)
              => /\ calls[c].native = NoError
                 /\ calls[c].listed /\ calls[c].listing = {}

\* one rmdir of a path that is not a directory, failed at its listing with
\* no rm, beside one rmdir whose empty listing led to an rm
C18_Witness ==
    \E c, d \in 1..Len(calls) :
        /\ calls[c].op = "rmdir" /\ calls[c].native \in {"store:absent", "store:notdir"}
        /\ calls[c].cb = << CbErr("ENOTDIR") >>
        /\ \A i \in 1..Len(rmLog) : rmLog[i].call # c
        /\ calls[d].op = "rmdir" /\ calls[d].listed /\ calls[d].listing = {}
        /\ \E i \in 1..Len(rmLog) : rmLog[i].call = d

\* C19: no step of a contract operation (stat, readdir, mkdir, rename,
\* unlink, rmdir, empty: the call or the completion of its store call)
\* changes the instance's store handle, its address or its permissions.
C19_HandleReadOnly ==
    [][ /\ self'.fs = self.fs
        /\ self'.address = self.address
        /\ self'.permissions = self.permissions ]_vars

\* an empty and a mkdir have both run to their end on the store, the store
\* is no longer what it was, and the instance is the one that was bound
C19_Witness ==
    \E c, d \in 1..Len(calls) :
        /\ calls[c].op = "empty" /\ calls[c].cb = << CbOk >>
        /\ calls[d].op = "mkdir" /\ calls[d].cb = << CbOk >>
        /\ node # node0
        /\ self = Bound

\* C4: once the one flush made so far has signalled success to its caller,
\* the persisted object is exactly the blob that was flushed and a stat of
\* the path reports the blob's length.
C4_FlushRoundTrip ==
    \A c \in 1..Len(syncs) :
        (/\ syncs[c].wrote = "ok" /\ Signalled(c)
         /\ Len(writes) = 1 /\ writes[1].call = c)
        => /\ persisted = syncs[c].blob
           /\ statOfFile = Cb(NoError, Stats("FILE", Len(syncs[c].blob)), {})

\* C5: a sync or close made on a clean handle completes within the call with
\* one callback that carries no error, hands nothing to the writer and
\* leaves the buffer, the dirty flag and the persisted object as they were.
C5_CleanSyncNoop ==
    [][ (Len(syncs') = Len(syncs) + 1 /\ ~dirty)
        => /\ syncs'[Len(syncs')].pc = "done"
           /\ syncs'[Len(syncs')].cb = << CbOk >>
           /\ buffer' = buffer /\ dirty' = dirty
           /\ writes' = writes /\ persisted' = persisted ]_vars

\* two syncs in a row on a clean handle
C5_Witness ==
    \E c \in 1..Len(syncs) :
        /\ c + 1 <= Len(syncs)
        /\ ~syncs[c].dirtyAtCall /\ ~syncs[c + 1].dirtyAtCall
        /\ syncs[c].cb = << CbOk >> /\ syncs[c + 1].cb = << CbOk >>
        /\ \A k \in 1..Len(writes) : writes[k].call \notin {c, c + 1}

\* C6: when the writer reports that the write failed, the handle is still
\* dirty once the writer's events have been handled, and the caller's
\* callback has been invoked once, with that error.
C6_FailedFlushStaysDirty ==
    \A c \in 1..Len(syncs) :
        syncs[c].wrote = "failed"
        => /\ syncs[c].dirtyAfter
           /\ syncs[c].cb = << CbErr(WriterError) >>

\* C7: the syncs made since the buffer was last written hand at most one
\* blob to the writer.
C7_OneFlushPerWindow == flushes <= 1

\* C8: a close on a dirty handle goes through the flush, and a sync or close
\* made after a close has completed finishes with one callback carrying an
\* error, without creating a writer.
C8_ClosedIsTerminal ==
    \A c \in 1..Len(syncs) :
        /\ (syncs[c].op = "close" /\ syncs[c].dirtyAtCall /\ syncs[c].cb # << >>)
           => syncs[c].wrote # "no"
        /\ syncs[c].afterClose
           => /\ syncs[c].pc = "done"
              /\ Len(syncs[c].cb) = 1
              /\ syncs[c].cb[1].err # NoError
              /\ \A k \in 1..Len(writes) : writes[k].call # c

(***************************************************************************)
(* Two-phase construction: Create with _allocate, and CreateDefault.       *)
(*                                                                         *)
(* wrapSync(f)(args, k) calls f(args) at once.  If f throws, k(e) is       *)
(* called at once; if f returns a promise, k(null, value) or k(err) is     *)
(* called when it settles, and what k throws then is rethrown outside;     *)
(* otherwise k(null, result) is called at once.  Whatever an immediate k   *)
(* throws leaves wrapSync towards its caller.  The first argument of k is  *)
(* the error, as the callbacks of stat and readdir read it.                *)
(***************************************************************************)
CreateError == "error:create"
CallbackThrew == "error:callback"

\* what the binding primitive (orbitfs.create, orbitfs.createDefault) does
Bindings == {"throws", "returns", "resolves", "rejects"}
BindingFailed(b) == b \in {"throws", "rejects"}

\* the arguments wrapSync passes to its callback k
wrapSyncArgs(b) ==
    IF BindingFailed(b) THEN << CreateError, Undefined >> ELSE << Null, StoreHandle >>

\* the constructor: unspecified options fall back to the defaults
Addresses == {Undefined, "", "db"}
Permissions == {Undefined, << "key" >>}
OrbitFS(opts) ==
    [fs |-> Undefined,
     address |-> IF opts.address \in {Undefined, ""} THEN "" ELSE opts.address,
     permissions |-> IF opts.permissions = Undefined THEN << "*" >>
                     ELSE opts.permissions]

\* one invocation of the caller's completion callback: cb(err, instance);
\* handle is what the instance's store handle was at that moment
Done(err, inst, handle) == [err |-> err, inst |-> inst, handle |-> handle]

\* the callback Create hands to _allocate: (e) => e ? cb(e) : cb(null, fs)
createCallback(e, handle) ==
    IF e # NoError THEN Done(e, FALSE, handle) ELSE Done(NoError, TRUE, handle)

\* the callback _allocate hands to wrapSync: (res) => { this._fs = res; cb(); }
\* args are the arguments wrapSync calls it with
allocateCallback(args) == [fs |-> args[1], cb |-> createCallback(NoError, args[1])]

\* the callback CreateDefault hands to wrapSync: (_fs) => { fs._fs = _fs; cb(null, fs); }
createDefaultCallback(args) == [fs |-> args[1], cb |-> Done(NoError, TRUE, args[1])]

\* OrbitFS.Name
Name == "OrbitFS"

\* the callback Factory hands to CreateDefault: (_err, res) => cb(Name, [res]);
\* done is the invocation CreateDefault makes of it
factoryCallback(done) ==
    [name |-> Name, objs |-> << [inst |-> done.inst, handle |-> done.handle] >>]

\* the invocations a Factory call makes of its caller's callback, given those
\* CreateDefault made of the callback Factory gave it
factoryCalls(kind, cb) ==
    IF kind = "Factory" THEN [j \in 1..Len(cb) |-> factoryCallback(cb[j])] ELSE << >>

NewCreate(kind, b, inst, pc, cb) ==
    [kind |-> kind, binding |-> b, inst |-> inst, pc |-> pc, cb |-> cb,
     factory |-> factoryCalls(kind, cb),
     dispatched |-> "no"]

CanCreate == Len(creates) < MaxCreates

\* Create(opts, cb): the constructor, then _allocate.  threw: whether the
\* caller's callback throws when it is invoked.
Create(opts, b, threw) ==
    /\ CanCreate
    /\ LET fs == OrbitFS(opts)
           k == allocateCallback(wrapSyncArgs(b))
       IN IF b \in {"resolves", "rejects"}
          THEN \* the promise is outstanding; nothing was thrown inside the try
               /\ ~threw
               /\ creates' = Append(creates, NewCreate("Create", b, fs, "pending", << >>))
          ELSE \* k runs inside the try of _allocate: what the caller's
               \* callback throws is caught there and passed to cb again
               creates' = Append(creates,
                   NewCreate("Create", b, [fs EXCEPT !.fs = k.fs], "done",
                       IF threw
                       THEN << k.cb, createCallback(CallbackThrew, k.fs) >>
                       ELSE << k.cb >>))
    /\ UNCHANGED <<fsVars, fileVars>>

\* CreateDefault(cb): the constructor with no options, then the binding,
\* with no try around it.  kind tells who called: a caller of CreateDefault,
\* or Factory with its own callback.
createDefaultBody(kind, b) ==
    /\ CanCreate
    /\ LET fs == OrbitFS([address |-> Undefined, permissions |-> Undefined])
           k == createDefaultCallback(wrapSyncArgs(b))
       IN IF b \in {"resolves", "rejects"}
          THEN creates' = Append(creates, NewCreate(kind, b, fs, "pending", << >>))
          ELSE creates' = Append(creates,
                   NewCreate(kind, b, [fs EXCEPT !.fs = k.fs], "done", << k.cb >>))
    /\ UNCHANGED <<fsVars, fileVars>>

CreateDefault(b, threw) ==
    /\ (b \in {"resolves", "rejects"} => ~threw)
    /\ createDefaultBody("CreateDefault", b)

\* Factory(cb): CreateDefault with a callback that wraps what it gets
Factory(b) ==
    /\ b \in Bindings
    /\ createDefaultBody("Factory", b)

\* the promise of the binding settles and wrapSync calls the callback it holds
Settled(i) ==
    /\ creates[i].pc = "pending"
    /\ LET k == IF creates[i].kind = "Create"
                THEN allocateCallback(wrapSyncArgs(creates[i].binding))
                ELSE createDefaultCallback(wrapSyncArgs(creates[i].binding))
       IN creates' = [creates EXCEPT ![i].pc = "done", ![i].inst.fs = k.fs,
                         ![i].cb = Append(@, k.cb),
                         ![i].factory = factoryCalls(creates[i].kind,
                                                     Append(creates[i].cb, k.cb))]
    /\ UNCHANGED <<fsVars, fileVars>>

Delivered(i) == \E j \in 1..Len(creates[i].cb) : creates[i].cb[j].inst

\* a caller that was handed the instance makes a contract call on it
Dispatch(i) ==
    /\ Delivered(i)
    /\ creates[i].dispatched = "no"
    /\ creates' = [creates EXCEPT ![i].dispatched = dispatchOn(creates[i].inst.fs)]
    /\ UNCHANGED <<fsVars, fileVars>>

InitCreate ==
    /\ self = Bound
    /\ node = [p \in Paths |-> "none"]
    /\ node0 = node
    /\ calls = << >>
    /\ rmLog = << >>
    /\ buffer = << >> /\ dirty = FALSE /\ persisted = << >>
    /\ syncs = << >> /\ writes = << >> /\ flushes = 0
    /\ creates = << >>

NextCreate ==
    \/ \E a \in Addresses, p \in Permissions, b \in Bindings, threw \in BOOLEAN :
          Create([address |-> a, permissions |-> p], b, threw)
    \/ \E b \in Bindings, threw \in BOOLEAN : CreateDefault(b, threw)
    \/ \E b \in Bindings : Factory(b)
    \/ \E i \in 1..Len(creates) : Settled(i)
    \/ \E i \in 1..Len(creates) : Dispatch(i)

SpecCreate == InitCreate /\ [][NextCreate]_vars

(***************************************************************************)
(* Claims about construction                                               *)
(***************************************************************************)
\* C9: when the binding fails the completion callback receives an error and
\* no instance, and an instance that was delivered to a caller has its
\* store handle bound, so that no contract call runs on an unbound instance.
C9_NoUnusableInstance ==
    \A i \in 1..Len(creates) :
        /\ (BindingFailed(creates[i].binding) /\ creates[i].cb # << >>)
           => (creates[i].cb[1].err # NoError /\ ~creates[i].cb[1].inst)
        /\ Delivered(i) => creates[i].inst.fs = StoreHandle
        /\ creates[i].dispatched \in {"no", "store"}

\* C10: a construction call invokes its completion callback at most once,
\* and exactly once when it is over.
C10_CallbackExactlyOnce ==
    \A i \in 1..Len(creates) :
        /\ Len(creates[i].cb) <= 1
        /\ creates[i].pc = "done" => Len(creates[i].cb) = 1

\* C11: a Factory call that is over has invoked its callback once, with the
\* backend's name and a list that holds the one instance with its store
\* handle bound when the binding succeeded, and no instance when it failed.
C11_FactoryShape ==
    \A i \in 1..Len(creates) :
        (creates[i].kind = "Factory" /\ creates[i].pc = "done")
        => /\ Len(creates[i].factory) = 1
           /\ creates[i].factory[1].name = Name
           /\ creates[i].factory[1].objs =
                 IF BindingFailed(creates[i].binding) THEN << >>
                 ELSE << [inst |-> TRUE, handle |-> StoreHandle] >>

\* C13: a contract operation whose store call is over (for sync and close:
\* whose write has ended, or that had nothing to flush) has invoked its
\* caller's callback, and has invoked it once.
C13_CompletesOnce ==
    /\ \A c \in 1..Len(calls) : calls[c].pc = "done" => Len(calls[c].cb) = 1
    /\ \A c \in 1..Len(syncs) : syncs[c].pc = "done" => Len(syncs[c].cb) = 1

\* C14: every error a contract operation delivers to its caller is one of
\* the closed kinds ENOENT, ENOTDIR, ENOTEMPTY, EIO; never the error value
\* the store or the writer produced.
C14_NoNativeErrorEscapes ==
    /\ \A c \in 1..Len(calls) : \A j \in 1..Len(calls[c].cb) :
           calls[c].cb[j].err \in ApiErrors \cup {NoError}
    /\ \A c \in 1..Len(syncs) : \A j \in 1..Len(syncs[c].cb) :
           syncs[c].cb[j].err \in ApiErrors \cup {NoError}

\* C16: when the buffer has been written since a sync was called (before
\* its blob was taken, or while its write was in flight) and that sync's
\* write has ended well, then once every sync is over and the handle is
\* clean the buffer's content is content that was handed to the writer: a
\* clean handle at rest never holds content no flush has taken.
C16_NoLostWrite ==
    \A c \in 1..Len(syncs) :
        (/\ ~syncs[c].window /\ syncs[c].wrote = "ok"
         /\ \A k \in 1..Len(syncs) : syncs[k].pc \in {"done", "lost"}
         /\ ~dirty)
        => \E k \in 1..Len(writes) : writes[k].blob = buffer

====
